---- MODULE Spec2Model ----
(***************************************************************************)
(* Reply synchronisation of AcquiMail: the Realtime Database reply store   *)
(* (realtimeDbService.ts), the Gmail client (gmailService) and the email   *)
(* service variants that run full and incremental syncs against them.      *)
(*                                                                         *)
(* Strings that the code takes apart or rewrites (the From header, the     *)
(* tombstone key) are sequences of one-character strings; opaque ids are   *)
(* plain strings; history ids are naturals and 0 stands for null.          *)
(***************************************************************************)
EXTENDS Integers, Sequences, FiniteSets, TLC

\* ------------------------------------------------------------------ bounds
MaxFaults   == 1      \* failing Gmail calls in one run
MaxDeletes  == 2      \* user deletions in one run
MaxPushes   == 1      \* push notifications delivered in one run
MaxDays     == 4      \* days the clock runs in one run
MaxRequests == 2      \* requests the webhook serves in one run
MaxAdds     == 2      \* records stored by direct addEmail calls in one run

Null == 0

\* ------------------------------------------------- the mailbox's messages
MsgIds == {"m1", "m2", "m3"}
\* the order in which Gmail delivers them
Delivery == <<"m1", "m2", "m3">>
SentId == "s1"

ThreadOf(m) == IF m = "m3" THEN "t2" ELSE "t1"
SentThread == "t1"

\* header values of the messages Gmail may deliver
FromHdr(m) ==
    CASE m = "m1" -> <<"A", " ", "<", "a", ".", "b", ">">>
      [] m = "m2" -> <<"a", "_", "b">>
      [] OTHER    -> <<"<", "c", ">">>
SubjectHdr(m) == <<"R", "e">>
DateHdr(m) == IF m = "m3" THEN "Tue" ELSE "Mon"
MessageIdHdr(m) ==
    CASE m = "m1" -> "mid1" [] m = "m2" -> "mid2" [] OTHER -> "mid3"

\* new Date(date).toISOString()
toISOString(d) ==
    IF d = "Mon" THEN <<"1", ".", "0", "Z">> ELSE <<"2", ".", "0", "Z">>

Min(a, b) == IF a < b THEN a ELSE b

RECURSIVE IndexFrom(_, _, _)
\* first index >= i of character c in s, 0 when there is none
IndexFrom(s, c, i) ==
    IF i > Len(s) THEN 0
    ELSE IF s[i] = c THEN i
    ELSE IndexFrom(s, c, i + 1)

\* from.match(/<(.+?)>/): the address between the first "<" that is followed
\* by at least one character and the next ">", else the whole header
senderEmailOf(from) ==
    LET lt == IndexFrom(from, "<", 1)
        gt == IF lt = 0 THEN 0 ELSE IndexFrom(from, ">", lt + 2)
    IN  IF lt # 0 /\ gt # 0 THEN SubSeq(from, lt + 1, gt - 1) ELSE from

\* the FetchedEmail built from a message's detail
FetchedEmail(m) ==
    [ messageId   |-> MessageIdHdr(m),
      senderEmail |-> senderEmailOf(FromHdr(m)),
      subject     |-> SubjectHdr(m),
      receivedAt  |-> toISOString(DateHdr(m)) ]

\* --------------------------------------------------------- the reply store
\* `${senderEmail}_${subject}_${receivedAt}`
deletedKey(e) == e.senderEmail \o <<"_">> \o e.subject \o <<"_">> \o e.receivedAt

\* .replace(/[.#$[\]]/g, '_')
sanitize(s) ==
    [i \in 1..Len(s) |-> IF s[i] \in {".", "#", "$", "[", "]"} THEN "_" ELSE s[i]]

VARIABLES
    emails,          \* /emails: set of stored reply records, each with its key
    nextKey,         \* the next push() key
    deletedEmails,   \* /deletedEmails: tombstone key -> tombstone
    sentMessages,    \* /sentMessages: the Gmail ids of sent messages
    inbox,           \* Gmail: the inbound messages delivered so far
    histOf,          \* Gmail: message -> the history id of its messageAdded
    gmailHistoryId,  \* Gmail: the mailbox's current history id (profile)
    historyFloor,    \* Gmail: start ids below it have expired
    token,           \* authService: TRUE when getAccessToken() yields a token
    lastHistoryId,   \* email service: the cached sync cursor (0 = null)
    isPolling,       \* email service: the poll timer's busy flag
    pollInterval,    \* email service: TRUE while the poll timer is set
    smart,           \* push service: the timers of startEmailMonitoring
    currentPushConfig, \* email service: the watch subscription
    task,            \* the sync calls in flight, one slot per trigger
    watch,           \* the enablePushNotifications call in flight, Gmail's
                     \* watch subscription and the renewal timer
    del,             \* the deleteEmail call in flight
    add,             \* a direct addEmail call in flight
    stop,            \* the disablePushNotifications call of the cleanup function
    send,            \* the sendEmailProfessional call in flight and its outcome
    hook,            \* the webhook request being served, its responses and
                     \* the /emailSyncTrigger node
    renewal,         \* the clock, the expiry of the watch Gmail holds and the
                     \* renewal timeout of enablePushNotifications
    trash,           \* the deleteEmailProfessional call in flight and the
                     \* messages Gmail has moved to the trash
    extract,         \* /tasks and the task extractions of the sync in flight
    faults,          \* Gmail calls that have failed so far
    deletes,         \* deleteEmail calls so far
    pushes,          \* push notifications delivered so far
    everDeleted,     \* Message-IDs of the replies deleteEmail has removed
    lastSync         \* the last incremental sync that completed: its profile id

storeVars == <<emails, nextKey, deletedEmails, sentMessages>>
gmailVars == <<inbox, histOf, gmailHistoryId, historyFloor, token>>
ghostVars == <<faults, deletes, pushes, everDeleted, lastSync>>
timerVars == <<pollInterval, smart>>
apiCalls == <<send, hook>>
sideVars == <<renewal, trash, extract>>
moreCalls == <<add, stop, apiCalls, sideVars>>
callVars == <<del, moreCalls>>
vars == <<emails, nextKey, deletedEmails, sentMessages, inbox, histOf,
          gmailHistoryId, historyFloor, token, lastHistoryId, isPolling,
          pollInterval, smart, currentPushConfig, task, watch, del, add, stop, send, hook,
          renewal, trash, extract,
          faults, deletes, pushes, everDeleted, lastSync>>

\* no watch is registered and no enablePushNotifications call is in flight
NoWatch == [pc |-> "idle", result |-> Null, registered |-> FALSE, renew |-> FALSE]

\* the cleanup function of startEmailMonitoring has not been called
NoStop == [pc |-> "idle", called |-> FALSE, racing |-> FALSE]

\* no direct addEmail call is in flight
NoAdd == [pc |-> "idle", email |-> <<>>, before |-> {}, snap |-> {}, result |-> ""]

\* startSmartPolling has not been called
NoTimer ==
    [on |-> FALSE, pollInterval |-> 0, last |-> <<>>, backup |-> FALSE,
     unhandled |-> FALSE]

\* docToEmail that loses the date of the record
docToEmailNoDate(data) ==
    [ id          |-> data.key,
      senderEmail |-> data.senderEmail,
      subject     |-> data.subject,
      receivedAt  |-> <<>> ]

\* docToEmail: the IncomingEmail read back from a stored record; it carries
\* no messageId field
docToEmail(data) ==
    [ id          |-> data.key,
      senderEmail |-> data.senderEmail,
      subject     |-> data.subject,
      receivedAt  |-> data.receivedAt ]

\* isDuplicate that matches by message id only
isDuplicateByIdOnly(existingEmails, email) ==
    \E existing \in existingEmails :
        /\ email.messageId # ""
        /\ "messageId" \in DOMAIN existing
        /\ existing.messageId = email.messageId

\* the isDuplicate test of addEmail against the records read by get()
isDuplicate(existingEmails, email) ==
    \E existing \in existingEmails :
        IF email.messageId # "" /\ "messageId" \in DOMAIN existing
              /\ existing.messageId # ""
        THEN existing.messageId = email.messageId
        ELSE /\ existing.senderEmail = email.senderEmail
             /\ existing.subject = email.subject
             /\ existing.receivedAt = email.receivedAt

\* getDeletedEmailIds: the unsanitized keys rebuilt from the tombstones' fields
getDeletedEmailIds ==
    { deletedKey(deletedEmails[k]) : k \in DOMAIN deletedEmails }

\* isEmailDeleted: lookup of the sanitized key
isEmailDeleted(e) == sanitize(deletedKey(e)) \in DOMAIN deletedEmails

\* Gmail: the ids of the messages of a thread
threadMessages(t) ==
    (IF t = SentThread THEN {SentId} ELSE {}) \cup {m \in inbox : ThreadOf(m) = t}

\* isOurThread that accepts every thread once something was sent
isOurThreadAnySent(m, sentMsgIds) ==
    sentMsgIds # {}

\* threadMessages.some(tm => sentMsgIds.includes(tm.id))
isOurThread(m, sentMsgIds) ==
    threadMessages(ThreadOf(m)) \cap sentMsgIds # {}

RECURSIVE historyOrder(_)
\* a set of delivered messages in the order of their history records
historyOrder(S) ==
    IF S = {} THEN <<>>
    ELSE LET m == CHOOSE x \in S : \A y \in S : histOf[x] <= histOf[y]
         IN  <<m>> \o historyOrder(S \ {m})

\* ------------------------------------------------------------ sync calls
\* no incremental sync has completed since the last other operation
NoSync == [ok |-> FALSE, cur |-> Null, n |-> 0]

Slots == {"full", "incr", "push", "init", "poll", "other"}

\* gmailService.fetchEmails exists in two versions: "legacy" is the one
\* emailService.ts calls, "batch" the one the incremental service calls
Idle ==
    [ pc |-> "idle", gmail |-> "batch", ret |-> "none", sent |-> {},
      deleted |-> {}, queue |-> <<>>, pending |-> <<>>, snap |-> {},
      start |-> Null, cur |-> Null, count |-> 0, listed |-> FALSE,
      wrote |-> FALSE, out |-> "none", expired |-> Null, cands |-> <<>> ]

BATCH_SIZE == 5

AllIdle ==
    /\ \A s \in Slots : task[s].pc = "idle"
    /\ watch.pc = "idle"
    /\ del.pc = "idle"

\* a sync call that has started and not yet returned to its trigger
InFlight(s) == task[s].pc # "idle"

RECURSIVE dropDeleted(_, _)
\* the loop of fetchEmailReplies up to the next email that is not tombstoned
dropDeleted(q, deletedIds) ==
    IF q = <<>> THEN q
    ELSE IF deletedKey(FetchedEmail(Head(q))) \in deletedIds
         THEN dropDeleted(Tail(q), deletedIds)
         ELSE q

\* fetchEmailReplies is entered: both versions start with getSentMessageIds
beginFull(t, ret) ==
    [t EXCEPT !.pc = "F_sent", !.ret = ret, !.sent = {}, !.deleted = {},
              !.queue = <<>>, !.pending = <<>>, !.snap = {}, !.count = 0,
              !.listed = FALSE, !.wrote = FALSE, !.cands = <<>>]

\* the call is over: its result, without the locals that are dead by then
returning(t, out) ==
    [t EXCEPT !.pc = "ret", !.out = out, !.deleted = {}, !.queue = <<>>,
              !.pending = <<>>, !.snap = {}, !.start = Null]

\* fetchEmailReplies returns or throws; t.ret says who called it
\*   "top"     the trigger itself
\*   "nohist"  fetchEmailRepliesIncremental, no history id from the profile
\*   "first"   fetchEmailRepliesIncremental, no cursor yet
\*   "expired" fetchEmailRepliesIncremental, getHistory returned null
\*   "catch"   the catch block of fetchEmailRepliesIncremental
finishFull(s, t, ok) ==
    IF ok
    THEN /\ task' = [task EXCEPT ![s] = returning(t, "ok")]
         /\ lastHistoryId' =
                IF t.ret \in {"first", "expired"} THEN t.cur ELSE lastHistoryId
    ELSE /\ task' = [task EXCEPT ![s] =
                IF t.ret \in {"nohist", "first", "expired"}
                THEN beginFull(t, "catch")
                ELSE returning(t, "error")]
         /\ UNCHANGED lastHistoryId

\* the for-loop of fetchEmailReplies moves on to its next addEmail call
advanceFull(s, t) ==
    LET q == dropDeleted(t.queue, t.deleted)
    IN  IF q = <<>>
        THEN finishFull(s, [t EXCEPT !.queue = q], TRUE)
        ELSE /\ task' = [task EXCEPT ![s] = [t EXCEPT !.queue = q, !.pc = "A_get"]]
             /\ UNCHANGED lastHistoryId

\* advanceIncr that leaves the cursor alone at the end of the sync
advanceIncrKeepCursor(s, t) ==
    IF t.queue # <<>>
    THEN /\ task' = [task EXCEPT ![s] = [t EXCEPT !.pc = "I_sent"]]
         /\ UNCHANGED lastHistoryId
    ELSE IF t.pending # <<>>
    THEN /\ task' = [task EXCEPT ![s] = [t EXCEPT !.pc = "I_detail"]]
         /\ UNCHANGED lastHistoryId
    ELSE /\ task' = [task EXCEPT ![s] = returning(t, "ok")]
         /\ UNCHANGED lastHistoryId

\* the loops of fetchEmailRepliesIncremental move on to the next message, the
\* next batch, or the end of the sync
advanceIncr(s, t) ==
    IF t.queue # <<>>
    THEN /\ task' = [task EXCEPT ![s] = [t EXCEPT !.pc = "I_sent"]]
         /\ UNCHANGED lastHistoryId
    ELSE IF t.pending # <<>>
    THEN /\ task' = [task EXCEPT ![s] = [t EXCEPT !.pc = "I_detail"]]
         /\ UNCHANGED lastHistoryId
    ELSE /\ task' = [task EXCEPT ![s] = returning(t, "ok")]
         /\ lastHistoryId' = t.cur

advance(s, t) ==
    IF t.ret = "none" THEN advanceIncr(s, t) ELSE advanceFull(s, t)

\* await getSentMessageIds() of fetchEmailReplies
FullGetSent(s) ==
    /\ task[s].pc = "F_sent"
    /\ task' = [task EXCEPT ![s].sent = sentMessages, ![s].pc = "F_deleted"]
    /\ UNCHANGED <<storeVars, gmailVars, lastHistoryId, isPolling, timerVars,
                   currentPushConfig, watch, callVars, ghostVars>>

\* await getDeletedEmailIds() of fetchEmailReplies
FullGetDeleted(s) ==
    /\ task[s].pc = "F_deleted"
    /\ task' = [task EXCEPT ![s].deleted = getDeletedEmailIds, ![s].pc = "F_fetch"]
    /\ UNCHANGED <<storeVars, gmailVars, lastHistoryId, isPolling, timerVars,
                   currentPushConfig, watch, callVars, ghostVars>>

\* gmailService.fetchEmails throws: no token
fetchThrowsNoToken(t) == ~token

\* gmailService.fetchEmails returns before the list call: only the batch
\* version tests the sent ids first
fetchSkipsList(t) == t.gmail = "batch" /\ t.sent = {}

\* await gmailFetchEmails(sentMessageIds, ...) and the loop up to the first
\* addEmail; a failing detail or thread call drops that message
FullFetch(s) ==
    LET t == task[s] IN
    /\ t.pc = "F_fetch"
    /\ \/ /\ fetchThrowsNoToken(t)
          /\ finishFull(s, t, FALSE)
          /\ UNCHANGED faults
       \/ /\ ~fetchThrowsNoToken(t)
          /\ fetchSkipsList(t)
          /\ advanceFull(s, t)
          /\ UNCHANGED faults
       \/ /\ ~fetchThrowsNoToken(t)
          /\ ~fetchSkipsList(t)
          /\ faults < MaxFaults
          /\ faults' = faults + 1
          /\ finishFull(s, [t EXCEPT !.listed = TRUE], FALSE)
       \/ /\ ~fetchThrowsNoToken(t)
          /\ ~fetchSkipsList(t)
          /\ t.sent = {}
          /\ advanceFull(s, [t EXCEPT !.listed = TRUE])
          /\ UNCHANGED faults
       \/ /\ ~fetchThrowsNoToken(t)
          /\ ~fetchSkipsList(t)
          /\ t.sent # {}
          /\ \E failed \in SUBSET inbox :
                /\ faults + Cardinality(failed) <= MaxFaults
                /\ faults' = faults + Cardinality(failed)
                /\ LET replies == {m \in inbox \ failed : isOurThread(m, t.sent)}
                   IN  advanceFull(s, [t EXCEPT !.listed = TRUE,
                                                !.queue = historyOrder(replies),
                                                !.cands = historyOrder(replies)])
    /\ UNCHANGED <<storeVars, gmailVars, isPolling, timerVars,
                   currentPushConfig, watch, callVars, deletes, pushes, everDeleted,
                   lastSync>>

\* addEmail: await get(emailsRef)
AddEmailGet(s) ==
    /\ task[s].pc = "A_get"
    /\ task' = [task EXCEPT ![s].snap = {docToEmail(r) : r \in emails},
                            ![s].pc = "A_set"]
    /\ UNCHANGED <<storeVars, gmailVars, lastHistoryId, isPolling, timerVars,
                   currentPushConfig, watch, callVars, ghostVars>>

\* addEmail: the duplicate test on what get() returned, then push() and set();
\* DUPLICATE_EMAIL is swallowed by the caller, which moves on
AddEmailSet(s) ==
    LET t == task[s]
        email == FetchedEmail(Head(t.queue))
    IN
    /\ t.pc = "A_set"
    /\ IF isDuplicate(t.snap, email)
       THEN /\ advance(s, [t EXCEPT !.queue = Tail(t.queue), !.snap = {}])
            /\ UNCHANGED <<emails, nextKey>>
       ELSE /\ emails' = emails \cup
                    {[ key |-> nextKey, messageId |-> email.messageId,
                       senderEmail |-> email.senderEmail,
                       subject |-> email.subject,
                       receivedAt |-> email.receivedAt ]}
            /\ nextKey' = nextKey + 1
            /\ advance(s, [t EXCEPT !.queue = Tail(t.queue), !.snap = {},
                                    !.count = t.count + 1, !.wrote = TRUE])
    /\ UNCHANGED <<deletedEmails, sentMessages, gmailVars, isPolling, timerVars,
                   currentPushConfig, watch, callVars, ghostVars>>

\* fetchEmailRepliesIncremental is entered: without a token it throws into
\* its own catch block, which runs a full sync
beginIncr(t) ==
    IF token
    THEN [Idle EXCEPT !.pc = "I_profile"]
    ELSE beginFull(Idle, "catch")

\* await getHistoryIdFromGmail(), then the choice of the sync strategy
IncrProfile(s) ==
    LET t == task[s] IN
    /\ t.pc = "I_profile"
    /\ \E failing \in BOOLEAN :
          /\ failing => (token /\ faults < MaxFaults)
          /\ faults' = IF failing THEN faults + 1 ELSE faults
          /\ LET currentHistoryId ==
                     IF failing \/ ~token THEN Null ELSE gmailHistoryId
                 t1 == [t EXCEPT !.cur = currentHistoryId]
             IN  task' = [task EXCEPT ![s] =
                     IF currentHistoryId = Null THEN beginFull(t1, "nohist")
                     ELSE IF lastHistoryId = Null THEN beginFull(t1, "first")
                     ELSE [t1 EXCEPT !.pc = "I_history", !.start = lastHistoryId]]
    /\ UNCHANGED <<storeVars, gmailVars, lastHistoryId, isPolling, timerVars,
                   currentPushConfig, watch, callVars, deletes, pushes, everDeleted,
                   lastSync>>

\* gmailService.getHistory: null for an expired start id and for a failed call
historyExpired(startHistoryId) == startHistoryId < historyFloor

\* the INBOX messages added after the start id, without those labelled SENT
newMessageIds(startHistoryId) ==
    historyOrder({m \in inbox : histOf[m] > startHistoryId})

\* await getHistory(lastHistoryId) and the scan of the history records
IncrHistory(s) ==
    LET t == task[s] IN
    /\ t.pc = "I_history"
    /\ \/ /\ ~token
          /\ task' = [task EXCEPT ![s] = beginFull(t, "catch")]
          /\ UNCHANGED <<lastHistoryId, faults>>
       \/ /\ token
          /\ faults < MaxFaults
          /\ faults' = faults + 1
          /\ task' = [task EXCEPT ![s] =
                 beginFull([t EXCEPT !.expired = t.start], "expired")]
          /\ UNCHANGED lastHistoryId
       \/ /\ token
          /\ historyExpired(t.start)
          /\ task' = [task EXCEPT ![s] =
                 beginFull([t EXCEPT !.expired = t.start], "expired")]
          /\ UNCHANGED <<lastHistoryId, faults>>
       \/ /\ token
          /\ ~historyExpired(t.start)
          /\ IF newMessageIds(t.start) = <<>>
             THEN /\ lastHistoryId' = t.cur
                  /\ task' = [task EXCEPT ![s] = returning(t, "ok")]
             ELSE /\ task' = [task EXCEPT ![s] =
                         [t EXCEPT !.pc = "I_deleted",
                                   !.pending = newMessageIds(t.start)]]
                  /\ UNCHANGED lastHistoryId
          /\ UNCHANGED faults
    /\ UNCHANGED <<storeVars, gmailVars, isPolling, timerVars,
                   currentPushConfig, watch, callVars, deletes, pushes, everDeleted,
                   lastSync>>

\* await getDeletedEmailIds() of fetchEmailRepliesIncremental
IncrGetDeleted(s) ==
    /\ task[s].pc = "I_deleted"
    /\ task' = [task EXCEPT ![s].deleted = getDeletedEmailIds, ![s].pc = "I_detail"]
    /\ UNCHANGED <<storeVars, gmailVars, lastHistoryId, isPolling, timerVars,
                   currentPushConfig, watch, callVars, ghostVars>>

\* the index of the third element from the end of a sequence of length n
Max3(n) == IF n > 3 THEN n - 2 ELSE 1

\* the elements of a sequence
Range(q) == {q[i] : i \in 1..Len(q)}

\* a sequence without the elements of a set
without(q, S) == SelectSeq(q, LAMBDA x : x \notin S)

\* await Promise.all(batch.map(fetch detail)): a failed fetch yields null and
\* the message is passed over
IncrDetail(s) ==
    LET t == task[s]
        n == Min(BATCH_SIZE, Len(t.pending))
        batch == SubSeq(t.pending, 1, n)
    IN
    /\ t.pc = "I_detail"
    /\ \E failed \in SUBSET Range(batch) :
          /\ faults + Cardinality(failed) <= MaxFaults
          /\ faults' = faults + Cardinality(failed)
          /\ advanceIncr(s, [t EXCEPT !.queue = without(batch, failed),
                                      !.pending = SubSeq(t.pending, n + 1, Len(t.pending))])
    /\ UNCHANGED <<storeVars, gmailVars, isPolling, timerVars,
                   currentPushConfig, watch, callVars, deletes, pushes, everDeleted,
                   lastSync>>

\* await getSentMessageIds() inside the message loop
IncrGetSent(s) ==
    /\ task[s].pc = "I_sent"
    /\ task' = [task EXCEPT ![s].sent = sentMessages, ![s].pc = "I_thread"]
    /\ UNCHANGED <<storeVars, gmailVars, lastHistoryId, isPolling, timerVars,
                   currentPushConfig, watch, callVars, ghostVars>>

\* the thread fetch, the reply test and the tombstone test for one message
IncrThread(s) ==
    LET t == task[s]
        m == Head(t.queue)
        skip == [t EXCEPT !.queue = Tail(t.queue)]
    IN
    /\ t.pc = "I_thread"
    /\ \/ /\ faults < MaxFaults
          /\ faults' = faults + 1
          /\ advanceIncr(s, skip)
       \/ /\ UNCHANGED faults
          /\ IF ~isOurThread(m, t.sent)
             THEN advanceIncr(s, skip)
             ELSE IF deletedKey(FetchedEmail(m)) \in t.deleted
             THEN advanceIncr(s, skip)
             ELSE /\ task' = [task EXCEPT ![s] = [t EXCEPT !.pc = "A_get"]]
                  /\ UNCHANGED lastHistoryId
    /\ UNCHANGED <<storeVars, gmailVars, isPolling, timerVars,
                   currentPushConfig, watch, callVars, deletes, pushes, everDeleted,
                   lastSync>>

\* ------------------------------------------------------------- triggers
\* App.tsx handleFetchEmails: the manual fetch, emailService.ts fetchEmailReplies
handleFetchEmails ==
    /\ task["full"].pc = "idle"
    /\ task' = [task EXCEPT !["full"] = beginFull([Idle EXCEPT !.gmail = "legacy"], "top")]
    /\ lastSync' = NoSync
    /\ UNCHANGED <<storeVars, gmailVars, lastHistoryId, isPolling, timerVars,
                   currentPushConfig, watch, callVars, faults, deletes, pushes,
                   everDeleted>>

\* a direct call of the incremental service's fetchEmailReplies
fetchEmailReplies ==
    /\ task["full"].pc = "idle"
    /\ task' = [task EXCEPT !["full"] = beginFull(Idle, "top")]
    /\ lastSync' = NoSync
    /\ UNCHANGED <<storeVars, gmailVars, lastHistoryId, isPolling, timerVars,
                   currentPushConfig, watch, callVars, faults, deletes, pushes,
                   everDeleted>>

\* a direct call of fetchEmailRepliesIncremental
fetchEmailRepliesIncremental ==
    /\ task["incr"].pc = "idle"
    /\ task' = [task EXCEPT !["incr"] = beginIncr(Idle)]
    /\ lastSync' = [lastSync EXCEPT !.ok = FALSE]
    /\ UNCHANGED <<storeVars, gmailVars, lastHistoryId, isPolling, timerVars,
                   currentPushConfig, watch, callVars, faults, deletes, pushes,
                   everDeleted>>

\* handlePushNotification(historyId): Pub/Sub may deliver any notification of
\* the mailbox, also an old one again
handlePushNotification(historyId) ==
    /\ task["push"].pc = "idle"
    /\ pushes < MaxPushes
    /\ pushes' = pushes + 1
    /\ lastHistoryId' = historyId
    /\ task' = [task EXCEPT !["push"] = beginIncr(Idle)]
    /\ lastSync' = NoSync
    /\ UNCHANGED <<storeVars, gmailVars, isPolling, timerVars,
                   currentPushConfig, watch, callVars, faults, deletes, everDeleted>>

\* the sync call of a slot returns to its trigger
Return(s) ==
    LET t == task[s] IN
    /\ t.pc = "ret"
    /\ task' = [task EXCEPT ![s] = Idle]
    /\ isPolling' = IF s = "poll" THEN FALSE ELSE isPolling
    /\ lastSync' = IF s \in {"incr", "poll", "push"}
                   THEN IF t.out = "ok" /\ t.ret \in {"none", "first", "expired"}
                        THEN [ok |-> TRUE, cur |-> t.cur,
                              n |-> Min(lastSync.n + 1, 2)]
                        ELSE NoSync
                   ELSE lastSync
    /\ UNCHANGED <<storeVars, gmailVars, lastHistoryId, timerVars,
                   currentPushConfig, watch, callVars, faults, deletes, pushes,
                   everDeleted>>

\* ------------------------------------------------------ watch registration
\* enablePushNotifications(pubSubTopic) is called
enablePushNotifications ==
    /\ watch.pc = "idle"
    /\ watch' = [watch EXCEPT !.pc = "call", !.result = Null]
    /\ lastSync' = NoSync
    /\ UNCHANGED <<storeVars, gmailVars, lastHistoryId, isPolling, timerVars,
                   currentPushConfig, task, callVars, faults, deletes, pushes,
                   everDeleted>>

\* setupGmailWatch: Gmail registers the watch and answers with its history id;
\* without a token, or when the call fails, there is no result
WatchCall ==
    /\ watch.pc = "call"
    /\ \E failing \in BOOLEAN :
          /\ failing => (token /\ faults < MaxFaults)
          /\ faults' = IF failing THEN faults + 1 ELSE faults
          /\ watch' = [watch EXCEPT
                 !.pc = "resume",
                 !.registered = IF failing \/ ~token THEN @ ELSE TRUE,
                 !.result = IF failing \/ ~token THEN Null ELSE gmailHistoryId]
    /\ UNCHANGED <<storeVars, gmailVars, lastHistoryId, isPolling, timerVars,
                   currentPushConfig, task, callVars, deletes, pushes, everDeleted,
                   lastSync>>

\* enablePushNotifications after the await
WatchResume ==
    /\ watch.pc = "resume"
    /\ IF watch.result = Null
       THEN UNCHANGED <<currentPushConfig, lastHistoryId>>
       ELSE /\ currentPushConfig' = [enabled |-> TRUE, historyId |-> watch.result]
            /\ lastHistoryId' = watch.result
    /\ watch' = [watch EXCEPT !.pc = "idle", !.result = Null]
    /\ UNCHANGED <<storeVars, gmailVars, isPolling, timerVars, task, callVars,
                   ghostVars>>

\* ------------------------------------------------------------ deleteEmail
\* App.tsx handleDeleteEmail: deleteEmail(id) for a reply an inbox view shows
handleDeleteEmail(id) ==
    /\ del.pc = "idle"
    /\ deletes < MaxDeletes
    /\ deletes' = deletes + 1
    /\ del' = [pc |-> "get", id |-> id]
    /\ UNCHANGED moreCalls
    /\ UNCHANGED <<storeVars, gmailVars, lastHistoryId, isPolling, timerVars,
                   currentPushConfig, task, watch, faults, pushes, everDeleted,
                   lastSync>>

\* putDeleted that writes nothing
putDeletedNowhere(tombstones, emailData) ==
    tombstones

\* the tombstone written under the sanitized key
putDeleted(tombstones, emailData) ==
    LET deletedEmailId == sanitize(deletedKey(emailData))
    IN  [k \in DOMAIN tombstones \cup {deletedEmailId} |->
            IF k = deletedEmailId
            THEN [ senderEmail |-> emailData.senderEmail,
                   subject |-> emailData.subject,
                   receivedAt |-> emailData.receivedAt ]
            ELSE tombstones[k]]

\* deleteEmail: get(emailRef) and, if the record exists, set(deletedRef, ...);
\* when a request fails deleteEmail throws and handleDeleteEmail shows a toast
DeleteTombstone ==
    /\ del.pc = "get"
    /\ \/ /\ faults < MaxFaults
          /\ faults' = faults + 1
          /\ del' = [pc |-> "idle", id |-> 0]
          /\ UNCHANGED deletedEmails
       \/ /\ deletedEmails' =
                IF \E r \in emails : r.key = del.id
                THEN putDeleted(deletedEmails, CHOOSE r \in emails : r.key = del.id)
                ELSE deletedEmails
          /\ del' = [del EXCEPT !.pc = "rm"]
          /\ UNCHANGED faults
    /\ UNCHANGED moreCalls
    /\ UNCHANGED <<emails, nextKey, sentMessages, gmailVars, lastHistoryId,
                   isPolling, timerVars, currentPushConfig, task, watch,
                   deletes, pushes, everDeleted, lastSync>>

\* deleteEmail: remove(emailRef)
DeleteRemove ==
    /\ del.pc = "rm"
    /\ \/ /\ faults < MaxFaults
          /\ faults' = faults + 1
          /\ UNCHANGED <<emails, everDeleted>>
       \/ /\ emails' = {r \in emails : r.key # del.id}
          /\ everDeleted' = everDeleted \cup
                 {r.messageId : r \in {x \in emails : x.key = del.id}}
          /\ UNCHANGED faults
    /\ del' = [pc |-> "idle", id |-> 0]
    /\ UNCHANGED moreCalls
    /\ UNCHANGED <<nextKey, deletedEmails, sentMessages, gmailVars, lastHistoryId,
                   isPolling, timerVars, currentPushConfig, task, watch,
                   deletes, pushes, lastSync>>

\* ------------------------------------------------------------ environment
\* Gmail delivers an inbound message: a messageAdded history record; a
\* message of the sent message's thread comes after the send
Arrive(m) ==
    /\ Cardinality(inbox) < Len(Delivery)
    /\ m = Delivery[Cardinality(inbox) + 1]
    /\ ThreadOf(m) = SentThread => SentId \in sentMessages
    /\ inbox' = inbox \cup {m}
    /\ gmailHistoryId' = gmailHistoryId + 1
    /\ histOf' = [histOf EXCEPT ![m] = gmailHistoryId + 1]
    /\ UNCHANGED <<storeVars, historyFloor, token, lastHistoryId, isPolling,
                   timerVars, currentPushConfig, task, watch, callVars, ghostVars>>

\* Gmail forgets the history before the current id
ExpireHistory ==
    /\ historyFloor < gmailHistoryId
    /\ historyFloor' = gmailHistoryId
    /\ UNCHANGED <<storeVars, inbox, histOf, gmailHistoryId, token, lastHistoryId,
                   isPolling, timerVars, currentPushConfig, task, watch, callVars,
                   ghostVars>>

\* the OAuth token is lost (sign-out, expiry) or obtained (sign-in)
SetToken(b) ==
    /\ token # b
    /\ token' = b
    /\ UNCHANGED <<storeVars, inbox, histOf, gmailHistoryId, historyFloor,
                   lastHistoryId, isPolling, timerVars, currentPushConfig,
                   task, watch, callVars, ghostVars>>

\* the due time of a timeout that is not set
NoTimeout == 0 - 1

\* the clock at 0, no watch registered at Gmail, no renewal timeout set
NoRenewal == [now |-> 0, expiry |-> 0, answer |-> 0, timer |-> NoTimeout,
              renewed |-> 0]

\* no deleteEmailProfessional call yet, nothing in Gmail's trash
NoTrash == [pc |-> "idle", id |-> 0, gmail |-> "", trashed |-> {}, result |-> ""]

\* no task stored, no extraction made
NoExtract == [tasks |-> {}, tried |-> {}, failed |-> {}]

\* no sendEmailProfessional call yet
NoSend == [pc |-> "idle", messageId |-> "", accepted |-> FALSE, result |-> "",
           rejected |-> FALSE]

\* no webhook request yet, /emailSyncTrigger absent
NoHook == [pc |-> "idle", method |-> "", body |-> "", historyId |-> Null,
           responses |-> <<>>, success |-> FALSE, trigger |-> <<>>,
           attempted |-> FALSE, stored |-> FALSE, requests |-> 0]

\* addSentMessageId that stores nothing
addSentMessageIdNowhere(sent, messageId) ==
    sent

\* addSentMessageId: set(sentMessages/<messageId>, ...)
addSentMessageId(sent, messageId) ==
    sent \cup {messageId}

\* getSentMessageIds: the keys under /sentMessages
getSentMessageIds == sentMessages

\* sendEmailProfessional in a run where both requests succeed
sendEmailProfessional ==
    /\ SentId \notin sentMessages
    /\ send.pc = "idle"
    /\ sentMessages' = addSentMessageId(sentMessages, SentId)
    /\ UNCHANGED <<emails, nextKey, deletedEmails, gmailVars, lastHistoryId,
                   isPolling, timerVars, currentPushConfig, task, watch, callVars,
                   ghostVars>>

\* ---------------------------------------------------------- specifications
Init ==
    /\ emails = {}
    /\ nextKey = 1
    /\ deletedEmails = <<>>
    /\ sentMessages = {}
    /\ inbox = {}
    /\ histOf = [m \in MsgIds |-> 0]
    /\ gmailHistoryId = 1
    /\ historyFloor = 1
    /\ token = TRUE
    /\ lastHistoryId = Null
    /\ isPolling = FALSE
    /\ pollInterval = FALSE
    /\ smart = NoTimer
    /\ currentPushConfig = [enabled |-> FALSE, historyId |-> Null]
    /\ task = [s \in Slots |-> Idle]
    /\ watch = NoWatch
    /\ del = [pc |-> "idle", id |-> 0]
    /\ add = NoAdd
    /\ stop = NoStop
    /\ send = NoSend
    /\ hook = NoHook
    /\ renewal = NoRenewal
    /\ trash = NoTrash
    /\ extract = NoExtract
    /\ faults = 0
    /\ deletes = 0
    /\ pushes = 0
    /\ everDeleted = {}
    /\ lastSync = NoSync

\* one step of a full sync in flight
StepFull(s) ==
    \/ FullGetSent(s)
    \/ FullGetDeleted(s)
    \/ FullFetch(s)
    \/ AddEmailGet(s)
    \/ AddEmailSet(s)
    \/ Return(s)

\* one step of the incremental part of a sync in flight
StepIncr(s) ==
    \/ IncrProfile(s)
    \/ IncrHistory(s)
    \/ IncrGetDeleted(s)
    \/ IncrDetail(s)
    \/ IncrGetSent(s)
    \/ IncrThread(s)

\* the incremental service, its operations run one after another: a call
\* starts only when no other call is in flight
Next ==
    \/ \E m \in MsgIds : Arrive(m)
    \/ ExpireHistory
    \/ sendEmailProfessional
    \/ AllIdle /\ fetchEmailReplies
    \/ AllIdle /\ fetchEmailRepliesIncremental
    \/ AllIdle /\ \E h \in 1..gmailHistoryId : handlePushNotification(h)
    \/ AllIdle /\ enablePushNotifications
    \/ WatchCall
    \/ WatchResume
    \/ \E s \in {"full", "incr", "push"} : StepFull(s) \/ StepIncr(s)

Spec == Init /\ [][Next]_vars

\* emailService.ts on the reply store: manual fetches and deletions, one
\* after another
NextStore ==
    \/ \E m \in MsgIds : Arrive(m)
    \/ sendEmailProfessional
    \/ \E b \in BOOLEAN : SetToken(b)
    \/ AllIdle /\ handleFetchEmails
    \/ AllIdle /\ \E r \in emails : handleDeleteEmail(r.key)
    \/ DeleteTombstone
    \/ DeleteRemove
    \/ StepFull("full")

SpecStore == Init /\ [][NextStore]_vars

\* the incremental service with deletions: syncs and deleteEmail calls, one
\* after another
NextFilter ==
    \/ \E m \in MsgIds : Arrive(m)
    \/ sendEmailProfessional
    \/ AllIdle /\ fetchEmailReplies
    \/ AllIdle /\ fetchEmailRepliesIncremental
    \/ AllIdle /\ \E r \in emails : handleDeleteEmail(r.key)
    \/ DeleteTombstone
    \/ DeleteRemove
    \/ \E s \in {"full", "incr"} : StepFull(s) \/ StepIncr(s)

SpecFilter == Init /\ [][NextFilter]_vars

\* fetchEmailReplies is called again after a call that has returned
fetchAgain ==
    /\ task["full"].pc = "ret"
    /\ task["full"].out = "ok"
    /\ task["other"].pc = "idle"
    /\ task' = [task EXCEPT !["other"] = beginFull(Idle, "top")]
    /\ UNCHANGED <<storeVars, gmailVars, lastHistoryId, isPolling, timerVars,
                   currentPushConfig, watch, callVars, ghostVars>>

\* full syncs of one instance, one after another, on a store that nothing
\* else writes to; the result of a call stays in its slot until it is dropped
NextTwice ==
    \/ \E m \in MsgIds : Arrive(m)
    \/ sendEmailProfessional
    \/ AllIdle /\ fetchEmailReplies
    \/ fetchAgain
    \/ task["other"].pc \in {"idle", "ret"} /\ StepFull("full")
    \/ StepFull("other")

SpecTwice == Init /\ [][NextTwice]_vars

\* ------------------------------------------------------ addEmail by itself
\* the emails a caller may pass to addEmail: with or without a message id
EmailInputs ==
    [ messageId   : {"", "mid1", "mid2"},
      senderEmail : {<<"a">>, <<"b">>},
      subject     : {<<"R", "e">>},
      receivedAt  : {toISOString("Mon"), toISOString("Tue")} ]

\* addEmail(email) is called
addEmail(email) ==
    /\ add.pc = "idle"
    /\ nextKey <= MaxAdds
    /\ add' = [NoAdd EXCEPT !.pc = "get", !.email = email]
    /\ UNCHANGED <<storeVars, gmailVars, lastHistoryId, isPolling, timerVars,
                   currentPushConfig, task, watch, del, stop, apiCalls, sideVars, ghostVars>>

\* await get(emailsRef) and snapshotToArray(snapshot, docToEmail)
AddGet ==
    /\ add.pc = "get"
    /\ add' = [add EXCEPT !.pc = "set", !.before = emails,
                          !.snap = {docToEmail(r) : r \in emails}]
    /\ UNCHANGED <<storeVars, gmailVars, lastHistoryId, isPolling, timerVars,
                   currentPushConfig, task, watch, del, stop, apiCalls, sideVars, ghostVars>>

\* the duplicate test, then throw or push() and set(newRef, cleanData(email))
AddSet ==
    /\ add.pc = "set"
    /\ IF isDuplicate(add.snap, add.email)
       THEN /\ add' = [add EXCEPT !.pc = "done", !.result = "DUPLICATE_EMAIL"]
            /\ UNCHANGED <<emails, nextKey>>
       ELSE /\ emails' = emails \cup
                    {[ key |-> nextKey, messageId |-> add.email.messageId,
                       senderEmail |-> add.email.senderEmail,
                       subject |-> add.email.subject,
                       receivedAt |-> add.email.receivedAt ]}
            /\ nextKey' = nextKey + 1
            /\ add' = [add EXCEPT !.pc = "done", !.result = "stored"]
    /\ UNCHANGED <<deletedEmails, sentMessages, gmailVars, lastHistoryId,
                   isPolling, timerVars, currentPushConfig, task, watch, del,
                   stop, apiCalls, sideVars, ghostVars>>

\* the caller has its answer
AddDone ==
    /\ add.pc = "done"
    /\ add' = NoAdd
    /\ UNCHANGED <<storeVars, gmailVars, lastHistoryId, isPolling, timerVars,
                   currentPushConfig, task, watch, del, stop, apiCalls, sideVars, ghostVars>>

NextAdd ==
    \/ \E email \in EmailInputs : addEmail(email)
    \/ AddGet
    \/ AddSet
    \/ AddDone

SpecAdd == Init /\ [][NextAdd]_vars

\* emailService.ts on the reply store, with deleteEmail calls for any key a
\* view may still show
NextDelete ==
    \/ \E m \in MsgIds : Arrive(m)
    \/ sendEmailProfessional
    \/ AllIdle /\ handleFetchEmails
    \/ AllIdle /\ \E id \in 1..nextKey : handleDeleteEmail(id)
    \/ DeleteTombstone
    \/ DeleteRemove
    \/ StepFull("full")

SpecDelete == Init /\ [][NextDelete]_vars

\* App.tsx: the send loop calls sendEmailProfessional for a draft
sendDraft ==
    /\ send.pc = "idle"
    /\ SentId \notin sentMessages
    /\ send' = [NoSend EXCEPT !.pc = "gmail", !.rejected = send.rejected]
    /\ UNCHANGED <<storeVars, gmailVars, lastHistoryId, isPolling, timerVars,
                   currentPushConfig, task, watch, del, add, stop, hook, sideVars,
                   ghostVars>>

\* gmailSendEmail: throws without a token or when the request fails, else
\* returns the id Gmail gave the message
SendGmail ==
    /\ send.pc = "gmail"
    /\ \/ /\ ~token
          /\ send' = [send EXCEPT !.pc = "idle", !.result = "threw",
                                  !.rejected = TRUE]
          /\ UNCHANGED faults
       \/ /\ token
          /\ faults < MaxFaults
          /\ faults' = faults + 1
          /\ send' = [send EXCEPT !.pc = "idle", !.result = "threw",
                                  !.rejected = TRUE]
       \/ /\ token
          /\ send' = [send EXCEPT !.pc = "store", !.messageId = SentId,
                                  !.accepted = TRUE]
          /\ UNCHANGED faults
    /\ UNCHANGED <<storeVars, gmailVars, lastHistoryId, isPolling, timerVars,
                   currentPushConfig, task, watch, del, add, stop, hook, sideVars,
                   deletes, pushes, everDeleted, lastSync>>

\* await addSentMessageId(messageId, ...), then return true; a failed write
\* is rethrown by the catch block
SendStore ==
    /\ send.pc = "store"
    /\ \/ /\ faults < MaxFaults
          /\ faults' = faults + 1
          /\ send' = [send EXCEPT !.pc = "idle", !.result = "threw"]
          /\ UNCHANGED sentMessages
       \/ /\ sentMessages' = addSentMessageId(sentMessages, send.messageId)
          /\ send' = [send EXCEPT !.pc = "idle", !.result = "true"]
          /\ UNCHANGED faults
    /\ UNCHANGED <<emails, nextKey, deletedEmails, gmailVars, lastHistoryId,
                   isPolling, timerVars, currentPushConfig, task, watch, del,
                   add, stop, hook, sideVars, deletes, pushes, everDeleted, lastSync>>

\* emailService.ts with sends that can fail, and the manual refresh
NextSend ==
    \/ \E m \in MsgIds : Arrive(m)
    \/ \E b \in BOOLEAN : SetToken(b)
    \/ sendDraft
    \/ SendGmail
    \/ SendStore
    \/ AllIdle /\ handleFetchEmails
    \/ StepFull("full")

SpecSend == Init /\ [][NextSend]_vars

\* ------------------------------------------------------- the Gmail webhook
\* request methods, and the shapes of req.body: no body at all, an object
\* without `message`, a message without `data`, data that is not JSON, a
\* notification without historyId, a notification as Gmail publishes it
Methods == {"GET", "POST"}
Bodies == {"none", "empty", "nodata", "garbled", "nohistory", "notification"}

\* req.body.message on an absent body, Buffer.from(undefined, 'base64') and
\* JSON.parse of other text throw inside the try block
throwsBeforeSync(body) == body \in {"none", "nodata", "garbled"}

\* the handler without its method check
firstStatusAnyMethod(method, body) ==
    IF throwsBeforeSync(body) THEN 200
    ELSE IF body = "empty" THEN 400
    ELSE 0

\* the handler up to `await triggerEmailSync`: the status it has answered
\* with, or 0 when it has reached the await
firstStatus(method, body) ==
    IF method # "POST" THEN 405
    ELSE IF throwsBeforeSync(body) THEN 200
    ELSE IF body = "empty" THEN 400
    ELSE 0

\* handler(req, res) is invoked; the notification carries one of the
\* mailbox's history ids
handler(method, body, historyId) ==
    /\ hook.pc = "idle"
    /\ hook.requests < MaxRequests
    /\ hook' = [hook EXCEPT
          !.requests = @ + 1,
          !.method = method,
          !.body = body,
          !.historyId = IF body = "notification" THEN historyId ELSE Null,
          !.attempted = FALSE,
          !.stored = FALSE,
          !.success = FALSE,
          !.responses = IF firstStatus(method, body) = 0 THEN <<>>
                        ELSE <<firstStatus(method, body)>>,
          !.pc = IF firstStatus(method, body) = 0 THEN "sync" ELSE "idle"]
    /\ UNCHANGED <<storeVars, gmailVars, lastHistoryId, isPolling, timerVars,
                   currentPushConfig, task, watch, del, add, stop, send, sideVars,
                   ghostVars>>

\* triggerEmailSync: set(emailSyncTrigger, {historyId, timestamp, source});
\* set() rejects an undefined historyId, a request can fail, and either
\* error is logged and swallowed
triggerEmailSync ==
    /\ hook.pc = "sync"
    /\ \/ /\ hook.historyId = Null
          /\ hook' = [hook EXCEPT !.pc = "respond", !.attempted = TRUE]
          /\ UNCHANGED faults
       \/ /\ hook.historyId # Null
          /\ faults < MaxFaults
          /\ faults' = faults + 1
          /\ hook' = [hook EXCEPT !.pc = "respond", !.attempted = TRUE]
       \/ /\ hook.historyId # Null
          /\ hook' = [hook EXCEPT !.pc = "respond", !.attempted = TRUE,
                                  !.stored = TRUE,
                                  !.trigger = <<hook.historyId, hook.requests>>]
          /\ UNCHANGED faults
    /\ UNCHANGED <<storeVars, gmailVars, lastHistoryId, isPolling, timerVars,
                   currentPushConfig, task, watch, del, add, stop, send, sideVars,
                   deletes, pushes, everDeleted, lastSync>>

\* res.status(200).json({success: true, ...}) after the await
HookRespond ==
    /\ hook.pc = "respond"
    /\ hook' = [hook EXCEPT !.pc = "idle", !.responses = Append(@, 200),
                            !.success = TRUE]
    /\ UNCHANGED <<storeVars, gmailVars, lastHistoryId, isPolling, timerVars,
                   currentPushConfig, task, watch, del, add, stop, send, sideVars,
                   ghostVars>>

\* the webhook serving requests while mail arrives in the mailbox
NextWebhook ==
    \/ \E m \in MsgIds : Arrive(m)
    \/ sendEmailProfessional
    \/ \E method \in Methods, body \in Bodies, h \in 1..gmailHistoryId :
          handler(method, body, h)
    \/ triggerEmailSync
    \/ HookRespond

SpecWebhook == Init /\ [][NextWebhook]_vars

\* emailService.ts on the reply store, the user deleting replies while a
\* manual fetch is running
NextRace ==
    \/ \E m \in MsgIds : Arrive(m)
    \/ sendEmailProfessional
    \/ watch.pc = "idle" /\ handleFetchEmails
    \/ \E r \in emails : handleDeleteEmail(r.key)
    \/ DeleteTombstone
    \/ DeleteRemove
    \/ StepFull("full")

SpecRace == Init /\ [][NextRace]_vars

\* ------------------------------------------------- background monitoring
\* startEmailMonitoring(callback, pubSubTopic) of the incremental service:
\* clears the old timer, starts the watch registration when a topic is
\* given, starts the initial full sync and sets the 5 s poll timer
startEmailMonitoring(withTopic) ==
    /\ ~pollInterval
    /\ ~stop.called
    /\ task["init"].pc = "idle"
    /\ watch.pc = "idle"
    /\ pollInterval' = TRUE
    /\ UNCHANGED smart
    /\ watch' = IF withTopic THEN [watch EXCEPT !.pc = "call", !.result = Null]
                 ELSE watch
    /\ task' = [task EXCEPT !["init"] = beginFull(Idle, "top")]
    /\ lastSync' = NoSync
    /\ UNCHANGED <<storeVars, gmailVars, lastHistoryId, isPolling,
                   currentPushConfig, callVars, faults, deletes, pushes, everDeleted>>

\* the setInterval callback without `if (isPolling) return`
PollTickUnguarded ==
    /\ pollInterval
    /\ isPolling' = TRUE
    /\ task' = [task EXCEPT !["poll"] = beginIncr(Idle)]
    /\ lastSync' = [lastSync EXCEPT !.ok = FALSE]
    /\ UNCHANGED <<storeVars, gmailVars, lastHistoryId, timerVars,
                   currentPushConfig, watch, callVars, faults, deletes, pushes,
                   everDeleted>>

\* the setInterval callback: it returns at once while isPolling is set, else
\* it sets the flag and calls fetchEmailRepliesIncremental
PollTick ==
    /\ pollInterval
    /\ ~isPolling
    /\ isPolling' = TRUE
    /\ task' = [task EXCEPT !["poll"] = beginIncr(Idle)]
    /\ lastSync' = [lastSync EXCEPT !.ok = FALSE]
    /\ UNCHANGED <<storeVars, gmailVars, lastHistoryId, timerVars,
                   currentPushConfig, watch, callVars, faults, deletes, pushes,
                   everDeleted>>

\* a fetchEmailReplies call of a second app instance on the same store
otherInstanceFetch ==
    /\ task["other"].pc = "idle"
    /\ task' = [task EXCEPT !["other"] = beginFull(Idle, "top")]
    /\ UNCHANGED <<storeVars, gmailVars, lastHistoryId, isPolling, timerVars,
                   currentPushConfig, watch, callVars, ghostVars>>

\* the first message of the delivery order arrives
FirstArrives == Arrive(Delivery[1])

\* the monitoring session of the incremental service: the initial sync, the
\* poll timer and push notifications, each started whenever the code allows
NextMonitor ==
    \/ FirstArrives
    \/ sendEmailProfessional
    \/ \E withTopic \in BOOLEAN : startEmailMonitoring(withTopic)
    \/ PollTick
    \/ \E h \in 1..gmailHistoryId : handlePushNotification(h)
    \/ WatchCall
    \/ WatchResume
    \/ \E s \in {"init", "poll", "push"} : StepFull(s) \/ StepIncr(s)

\* as Init, with no Gmail call left to fail
InitNoFaults ==
    /\ emails = {}
    /\ nextKey = 1
    /\ deletedEmails = <<>>
    /\ sentMessages = {}
    /\ inbox = {}
    /\ histOf = [m \in MsgIds |-> 0]
    /\ gmailHistoryId = 1
    /\ historyFloor = 1
    /\ token = TRUE
    /\ lastHistoryId = Null
    /\ isPolling = FALSE
    /\ pollInterval = FALSE
    /\ smart = NoTimer
    /\ currentPushConfig = [enabled |-> FALSE, historyId |-> Null]
    /\ task = [s \in Slots |-> Idle]
    /\ watch = NoWatch
    /\ del = [pc |-> "idle", id |-> 0]
    /\ add = NoAdd
    /\ stop = NoStop
    /\ send = NoSend
    /\ hook = NoHook
    /\ renewal = NoRenewal
    /\ trash = NoTrash
    /\ extract = NoExtract
    /\ faults = MaxFaults
    /\ deletes = 0
    /\ pushes = 0
    /\ everDeleted = {}
    /\ lastSync = NoSync

SpecMonitor == InitNoFaults /\ [][NextMonitor]_vars

\* two app instances, each running full syncs against the same store
NextMulti ==
    \/ FirstArrives
    \/ sendEmailProfessional
    \/ fetchEmailReplies
    \/ otherInstanceFetch
    \/ \E s \in {"full", "other"} : StepFull(s)

SpecMulti == InitNoFaults /\ [][NextMulti]_vars

\* the poll timer of the incremental service at work on a mailbox that
\* receives one message
StartPolling == startEmailMonitoring(FALSE)

PollStep == StepFull("poll") \/ StepIncr("poll")

InitialStep == StepFull("init")

NextPolling ==
    \/ FirstArrives
    \/ sendEmailProfessional
    \/ StartPolling
    \/ PollTick
    \/ PollStep
    \/ InitialStep

\* the timer keeps firing and every call in flight keeps running
FairSpec ==
    /\ Init
    /\ [][NextPolling]_vars
    /\ WF_vars(StartPolling)
    /\ WF_vars(PollTick)
    /\ WF_vars(PollStep)
    /\ WF_vars(InitialStep)

\* ------------------------------------------------------- the push service
\* the push service's enablePushNotifications after the await: it keeps the
\* watch's history id as the baseline of handlePushNotification
WatchResumeBaseline ==
    /\ watch.pc = "resume"
    /\ currentPushConfig' =
           IF watch.result = Null THEN currentPushConfig
           ELSE [enabled |-> TRUE, historyId |-> watch.result]
    /\ watch' = [watch EXCEPT !.pc = "idle", !.result = Null,
                              !.renew = (watch.result # Null) \/ @]
    /\ UNCHANGED <<storeVars, gmailVars, lastHistoryId, isPolling, timerVars,
                   task, callVars, ghostVars>>

\* the push service's handlePushNotification(historyId): without a baseline
\* it runs a full sync, else it asks Gmail for the history since the baseline
pushReceived(historyId) ==
    /\ task["push"].pc = "idle"
    /\ pushes < MaxPushes
    /\ pushes' = pushes + 1
    /\ task' = [task EXCEPT !["push"] =
           IF currentPushConfig.historyId = Null
           THEN beginFull(Idle, "top")
           ELSE [Idle EXCEPT !.pc = "P_history", !.cur = historyId,
                             !.start = currentPushConfig.historyId]]
    /\ UNCHANGED <<storeVars, gmailVars, lastHistoryId, isPolling, timerVars,
                   currentPushConfig, watch, callVars, faults, deletes, everDeleted,
                   lastSync>>

\* await getHistory(currentPushConfig.historyId) of handlePushNotification and
\* the choice that follows it
PushHistory(s) ==
    LET t == task[s] IN
    /\ t.pc = "P_history"
    /\ \/ /\ ~token
          /\ task' = [task EXCEPT ![s] = returning(t, "error")]
          /\ UNCHANGED <<currentPushConfig, faults>>
       \/ /\ token
          /\ faults < MaxFaults
          /\ faults' = faults + 1
          /\ task' = [task EXCEPT ![s] =
                 beginFull([t EXCEPT !.expired = t.start], "top")]
          /\ UNCHANGED currentPushConfig
       \/ /\ token
          /\ historyExpired(t.start)
          /\ task' = [task EXCEPT ![s] =
                 beginFull([t EXCEPT !.expired = t.start], "top")]
          /\ UNCHANGED <<currentPushConfig, faults>>
       \/ /\ token
          /\ ~historyExpired(t.start)
          /\ currentPushConfig' = [currentPushConfig EXCEPT !.historyId = t.cur]
          /\ task' = [task EXCEPT ![s] = beginFull(t, "top")]
          /\ UNCHANGED faults
    /\ UNCHANGED <<storeVars, gmailVars, lastHistoryId, isPolling, timerVars,
                   watch, callVars, deletes, pushes, everDeleted, lastSync>>

\* the renewal timeout set by enablePushNotifications fires
RenewalFires ==
    /\ watch.renew
    /\ watch.pc = "idle"
    /\ watch' = [watch EXCEPT !.renew = FALSE, !.pc = "call", !.result = Null]
    /\ UNCHANGED <<storeVars, gmailVars, lastHistoryId, isPolling, timerVars,
                   currentPushConfig, task, callVars, ghostVars>>

\* the push service with its watch and its notifications, one call at a time
NextPush ==
    \/ \E m \in MsgIds : Arrive(m)
    \/ ExpireHistory
    \/ sendEmailProfessional
    \/ AllIdle /\ enablePushNotifications
    \/ WatchCall
    \/ WatchResumeBaseline
    \/ AllIdle /\ RenewalFires
    \/ AllIdle /\ \E h \in 1..gmailHistoryId : pushReceived(h)
    \/ PushHistory("push")
    \/ StepFull("push")

SpecPush == Init /\ [][NextPush]_vars

\* ---------------------------------------------------------- smart polling
MAX_INTERVAL == 60000
MIN_INTERVAL == 10000

\* the interval after a poll without new emails, without the ceiling
slowDownUncapped(interval) == (interval * 3) \div 2

\* Math.min(pollInterval * 1.5, MAX_INTERVAL)
slowDown(interval) == Min((interval * 3) \div 2, MAX_INTERVAL)

\* the interval after a failed poll, without the ceiling
backOffUncapped(interval) == interval * 2

\* Math.min(pollInterval * 2, MAX_INTERVAL)
backOff(interval) == Min(interval * 2, MAX_INTERVAL)

\* the last three entries of a sequence, with one more appended
lastThree(q, x) ==
    LET r == Append(q, x) IN SubSeq(r, Max3(Len(r)), Len(r))

\* startEmailMonitoring of the push service without a topic:
\* startSmartPolling arms the first timeout at 15 s, then the initial fetch
startSmartPolling ==
    /\ smart = NoTimer
    /\ ~stop.called
    /\ task["init"].pc = "idle"
    /\ smart' = [NoTimer EXCEPT !.on = TRUE, !.pollInterval = 15000]
    /\ task' = [task EXCEPT !["init"] = beginFull(Idle, "top")]
    /\ UNCHANGED <<storeVars, gmailVars, lastHistoryId, isPolling, pollInterval,
                   currentPushConfig, watch, callVars, ghostVars>>

\* the timeout of scheduleNext fires: await fetchEmailReplies()
SmartPollFire ==
    /\ smart.on
    /\ task["poll"].pc = "idle"
    /\ smart' = [smart EXCEPT !.on = FALSE]
    /\ task' = [task EXCEPT !["poll"] = beginFull(Idle, "top")]
    /\ UNCHANGED <<storeVars, gmailVars, lastHistoryId, isPolling, pollInterval,
                   currentPushConfig, watch, callVars, ghostVars>>

\* fetchEmailReplies has returned or thrown: the new interval, scheduleNext()
SmartPollDone ==
    LET t == task["poll"]
        outcome == IF t.out # "ok" THEN "error"
                   ELSE IF t.count = 0 THEN "empty" ELSE "found"
    IN
    /\ smart.pollInterval # 0
    /\ t.pc = "ret"
    /\ smart' = [smart EXCEPT
           !.on = TRUE,
           !.pollInterval = IF outcome = "error" THEN backOff(@)
                            ELSE IF outcome = "empty" THEN slowDown(@)
                            ELSE MIN_INTERVAL,
           !.last = lastThree(@, [before |-> smart.pollInterval,
                                  outcome |-> outcome])]
    /\ task' = [task EXCEPT !["poll"] = Idle]
    /\ UNCHANGED <<storeVars, gmailVars, lastHistoryId, isPolling, pollInterval,
                   currentPushConfig, watch, callVars, ghostVars>>

\* one step of a fetchEmailReplies call in flight
StepSync(s) ==
    \/ FullGetSent(s)
    \/ FullGetDeleted(s)
    \/ FullFetch(s)
    \/ AddEmailGet(s)
    \/ AddEmailSet(s)

NextSmart ==
    \/ \E m \in MsgIds : Arrive(m)
    \/ sendEmailProfessional
    \/ startSmartPolling
    \/ SmartPollFire
    \/ SmartPollDone
    \/ StepSync("poll")
    \/ StepSync("init")
    \/ Return("init")

SpecSmart == Init /\ [][NextSmart]_vars

\* --------------------------------------------------- the backup interval
\* startEmailMonitoring of the push service with a topic: it calls
\* enablePushNotifications and starts the initial fetch
startPushMonitoring ==
    /\ smart = NoTimer
    /\ ~stop.called
    /\ watch.pc = "idle"
    /\ task["init"].pc = "idle"
    /\ watch' = [watch EXCEPT !.pc = "call", !.result = Null]
    /\ task' = [task EXCEPT !["init"] = beginFull(Idle, "top")]
    /\ UNCHANGED <<storeVars, gmailVars, lastHistoryId, isPolling, timerVars,
                   currentPushConfig, callVars, ghostVars>>

\* the .then callback that sets the backup interval and starts smart polling
monitorWithBoth(enabled, timers) ==
    [NoTimer EXCEPT !.on = TRUE, !.pollInterval = 15000, !.backup = enabled]

\* the .then callback of startEmailMonitoring: setInterval of the backup
\* sync when push is enabled, else startSmartPolling
monitorWith(enabled, timers) ==
    IF enabled
    THEN [timers EXCEPT !.backup = TRUE]
    ELSE [NoTimer EXCEPT !.on = TRUE, !.pollInterval = 15000]

\* enablePushNotifications resolves inside startEmailMonitoring: with a watch
\* the 5 minute backup interval is set, without one smart polling starts
WatchResumeMonitoring ==
    /\ watch.pc = "resume"
    /\ currentPushConfig' =
           IF watch.result = Null THEN currentPushConfig
           ELSE [enabled |-> TRUE, historyId |-> watch.result]
    /\ watch' = [watch EXCEPT !.pc = "idle", !.result = Null,
                              !.renew = (watch.result # Null) \/ @]
    /\ smart' = monitorWith(watch.result # Null, smart)
    /\ UNCHANGED <<storeVars, gmailVars, lastHistoryId, isPolling, pollInterval,
                   task, callVars, ghostVars>>

\* the backup interval fires: await fetchEmailReplies()
BackupTick ==
    /\ smart.backup
    /\ task["poll"].pc = "idle"
    /\ task' = [task EXCEPT !["poll"] = beginFull(Idle, "top")]
    /\ UNCHANGED <<storeVars, gmailVars, lastHistoryId, isPolling, timerVars,
                   currentPushConfig, watch, callVars, ghostVars>>

\* fetchEmailReplies settles in the backup callback, which has no try block:
\* a rejection leaves the async callback as an unhandled rejection
BackupDone ==
    /\ smart.backup
    /\ task["poll"].pc = "ret"
    /\ smart' = [smart EXCEPT !.unhandled = @ \/ task["poll"].out = "error"]
    /\ task' = [task EXCEPT !["poll"] = Idle]
    /\ UNCHANGED <<storeVars, gmailVars, lastHistoryId, isPolling, pollInterval,
                   currentPushConfig, watch, callVars, ghostVars>>

\* a monitoring session of the push service with a Pub/Sub topic
NextBackup ==
    \/ FirstArrives
    \/ sendEmailProfessional
    \/ startPushMonitoring
    \/ WatchCall
    \/ WatchResumeMonitoring
    \/ BackupTick
    \/ BackupDone
    \/ SmartPollFire
    \/ SmartPollDone
    \/ StepSync("poll")
    \/ StepSync("init")
    \/ Return("init")

SpecBackup == Init /\ [][NextBackup]_vars

\* one monitoring session of the push service, started with or without a
\* topic
NextMonitoring ==
    \/ watch.pc = "idle" /\ startSmartPolling
    \/ NextBackup

SpecMonitoring == Init /\ [][NextMonitoring]_vars

\* incremental syncs and push notifications of the incremental service while
\* the user signs out and in
NextFallback ==
    \/ FirstArrives
    \/ sendEmailProfessional
    \/ \E b \in BOOLEAN : SetToken(b)
    \/ AllIdle /\ fetchEmailRepliesIncremental
    \/ AllIdle /\ \E h \in 1..gmailHistoryId : handlePushNotification(h)
    \/ \E s \in {"incr", "push"} : StepFull(s) \/ StepIncr(s)

SpecFallback == Init /\ [][NextFallback]_vars

\* ------------------------------------------------------------- teardown
\* the cleanup function startEmailMonitoring returned, incremental service:
\* it clears the poll timer and calls disablePushNotifications
stopMonitoring ==
    /\ pollInterval \/ stop.called
    /\ stop.pc = "idle"
    /\ pollInterval' = FALSE
    /\ stop' = [pc |-> "call", called |-> TRUE,
                racing |-> stop.racing \/ watch.pc # "idle"]
    /\ UNCHANGED <<storeVars, gmailVars, lastHistoryId, isPolling, smart,
                   currentPushConfig, task, watch, del, add, apiCalls, sideVars, ghostVars>>

\* the cleanup function startEmailMonitoring returned, push service: it
\* clears the timer in pushCheckInterval and calls disablePushNotifications
stopSmartMonitoring ==
    /\ smart # NoTimer
    /\ stop.pc = "idle"
    /\ smart' = [smart EXCEPT !.on = FALSE]
    /\ stop' = [pc |-> "call", called |-> TRUE,
                racing |-> stop.racing \/ watch.pc # "idle"]
    /\ UNCHANGED <<storeVars, gmailVars, lastHistoryId, isPolling, pollInterval,
                   currentPushConfig, task, watch, del, add, apiCalls, sideVars, ghostVars>>

\* await stopGmailWatch(): it throws without a token, which ends
\* disablePushNotifications in its catch block; a failed request is swallowed
StopWatchCall ==
    /\ stop.pc = "call"
    /\ \E failing \in BOOLEAN :
          /\ failing => (token /\ faults < MaxFaults)
          /\ faults' = IF failing THEN faults + 1 ELSE faults
          /\ watch' = [watch EXCEPT
                 !.registered = IF failing \/ ~token THEN @ ELSE FALSE]
    /\ stop' = [stop EXCEPT !.pc = IF token THEN "resume" ELSE "idle"]
    /\ UNCHANGED <<storeVars, gmailVars, lastHistoryId, isPolling, timerVars,
                   currentPushConfig, task, del, add, apiCalls, sideVars, deletes, pushes,
                   everDeleted, lastSync>>

\* disablePushNotifications of the incremental service after the await
StopResume ==
    /\ stop.pc = "resume"
    /\ currentPushConfig' = [enabled |-> FALSE, historyId |-> Null]
    /\ stop' = [stop EXCEPT !.pc = "idle"]
    /\ UNCHANGED <<storeVars, gmailVars, lastHistoryId, isPolling, timerVars,
                   task, watch, del, add, apiCalls, sideVars, ghostVars>>

\* disablePushNotifications of the push service after the await: it also
\* clears the timer in pushCheckInterval
StopResumeClearTimer ==
    /\ stop.pc = "resume"
    /\ currentPushConfig' = [enabled |-> FALSE, historyId |-> Null]
    /\ smart' = [smart EXCEPT !.on = FALSE]
    /\ stop' = [stop EXCEPT !.pc = "idle"]
    /\ UNCHANGED <<storeVars, gmailVars, lastHistoryId, isPolling, pollInterval,
                   task, watch, del, add, apiCalls, sideVars, ghostVars>>

\* a monitoring session of the incremental service and its teardown
NextStop ==
    \/ FirstArrives
    \/ sendEmailProfessional
    \/ \E withTopic \in BOOLEAN : startEmailMonitoring(withTopic)
    \/ PollTick
    \/ WatchCall
    \/ WatchResume
    \/ stopMonitoring
    \/ StopWatchCall
    \/ StopResume
    \/ \E s \in {"init", "poll"} : StepFull(s) \/ StepIncr(s)

SpecStop == InitNoFaults /\ [][NextStop]_vars

\* a smart polling session of the push service and its teardown
NextSmartStop ==
    \/ FirstArrives
    \/ sendEmailProfessional
    \/ startSmartPolling
    \/ SmartPollFire
    \/ SmartPollDone
    \/ stopSmartMonitoring
    \/ StopWatchCall
    \/ StopResumeClearTimer
    \/ StepSync("poll")
    \/ StepSync("init")
    \/ Return("init")

SpecSmartStop == Init /\ [][NextSmartStop]_vars

\* ------------------------------------------------------- watch renewal
\* 24 * 60 * 60 * 1000 ms, the unit of the clock
DAY == 1

\* the days after which a watch Gmail has just registered expires (Gmail
\* documents 7 days; the code takes whatever `expiration` it is given)
Lifetimes == {1, 2, 3}

\* setupGmailWatch with the clock: Gmail replaces the user's watch by one
\* that expires `d` days from now and answers with that expiration
WatchCallExpiring ==
    /\ watch.pc = "call"
    /\ \/ /\ ~token
          /\ watch' = [watch EXCEPT !.pc = "resume", !.result = Null]
          /\ UNCHANGED <<faults, renewal>>
       \/ /\ token
          /\ faults < MaxFaults
          /\ faults' = faults + 1
          /\ watch' = [watch EXCEPT !.pc = "resume", !.result = Null]
          /\ UNCHANGED renewal
       \/ /\ token
          /\ \E d \in Lifetimes :
                renewal' = [renewal EXCEPT !.expiry = renewal.now + d,
                                           !.answer = renewal.now + d]
          /\ watch' = [watch EXCEPT !.pc = "resume", !.registered = TRUE,
                                    !.result = gmailHistoryId]
          /\ UNCHANGED faults
    /\ UNCHANGED <<storeVars, gmailVars, lastHistoryId, isPolling, timerVars,
                   currentPushConfig, task, del, add, stop, apiCalls, trash,
                   extract, deletes, pushes, everDeleted, lastSync>>

\* the delay of the renewal timeout for an expiration read at time `now`
renewDelay(expiration, now) == (expiration - DAY) - now

\* enablePushNotifications after the await: without a result it returns
\* false; with one it stores the config and sets the renewal timeout when
\* renewDelay > 0
WatchResumeRenewal ==
    /\ watch.pc = "resume"
    /\ IF watch.result = Null
       THEN UNCHANGED <<currentPushConfig, renewal>>
       ELSE /\ currentPushConfig' =
                  [enabled |-> TRUE, historyId |-> watch.result]
            /\ renewal' =
                  IF renewDelay(renewal.answer, renewal.now) > 0
                  THEN [renewal EXCEPT
                          !.timer = renewal.now +
                                    renewDelay(renewal.answer, renewal.now)]
                  ELSE renewal
    /\ watch' = [watch EXCEPT !.pc = "idle", !.result = Null]
    /\ UNCHANGED <<storeVars, gmailVars, lastHistoryId, isPolling, timerVars,
                   task, del, add, stop, apiCalls, trash, extract, ghostVars>>

\* the renewal timeout is due: enablePushNotifications(pubSubTopic) again
RenewalDue ==
    /\ renewal.timer # NoTimeout
    /\ renewal.timer <= renewal.now
    /\ watch.pc = "idle"
    /\ renewal' = [renewal EXCEPT !.timer = NoTimeout, !.renewed = 1]
    /\ watch' = [watch EXCEPT !.pc = "call", !.result = Null]
    /\ UNCHANGED <<storeVars, gmailVars, lastHistoryId, isPolling, timerVars,
                   currentPushConfig, task, del, add, stop, apiCalls, trash,
                   extract, ghostVars>>

\* a day passes; a timeout that is due fires first, and no call is in flight
Tick ==
    /\ renewal.now < MaxDays
    /\ watch.pc = "idle"
    /\ ~(renewal.timer # NoTimeout /\ renewal.timer <= renewal.now)
    /\ renewal' = [renewal EXCEPT !.now = @ + 1]
    /\ UNCHANGED <<storeVars, gmailVars, lastHistoryId, isPolling, timerVars,
                   currentPushConfig, task, watch, del, add, stop, apiCalls,
                   trash, extract, ghostVars>>

\* monitoring with push notifications over several days
NextRenewal ==
    \/ \E b \in BOOLEAN : SetToken(b)
    \/ ~currentPushConfig.enabled /\ enablePushNotifications
    \/ WatchCallExpiring
    \/ WatchResumeRenewal
    \/ RenewalDue
    \/ Tick

SpecRenewal == Init /\ [][NextRenewal]_vars

\* ------------------------------------------------- deleteEmailProfessional
\* deleteEmailProfessional(localEmailId, gmailMessageId), the Gmail id being
\* optional: without one the function has nothing to await and returns
deleteEmailProfessional(localEmailId, gmailMessageId) ==
    /\ trash.pc = "idle"
    /\ deletes < MaxDeletes
    /\ deletes' = deletes + 1
    /\ trash' = [trash EXCEPT
          !.id = localEmailId,
          !.gmail = gmailMessageId,
          !.pc = IF gmailMessageId = "" THEN "idle" ELSE "gmail",
          !.result = IF gmailMessageId = "" THEN "ok" ELSE ""]
    /\ UNCHANGED <<storeVars, gmailVars, lastHistoryId, isPolling, timerVars,
                   currentPushConfig, task, watch, del, add, stop, apiCalls,
                   renewal, extract, faults, pushes, everDeleted, lastSync>>

\* gmailDeleteEmail: throws without a token or when fetch rejects; the
\* response is not looked at, so an error response also returns normally
TrashCall ==
    /\ trash.pc = "gmail"
    /\ \/ /\ ~token
          /\ trash' = [trash EXCEPT !.pc = "idle", !.result = "threw"]
          /\ UNCHANGED faults
       \/ /\ token
          /\ faults < MaxFaults
          /\ faults' = faults + 1
          /\ \E rejects \in BOOLEAN :
                trash' = [trash EXCEPT
                             !.pc = "idle",
                             !.result = IF rejects THEN "threw" ELSE "ok"]
       \/ /\ token
          /\ trash' = [trash EXCEPT !.pc = "idle", !.result = "ok",
                                    !.trashed = @ \cup {trash.gmail}]
          /\ UNCHANGED faults
    /\ UNCHANGED <<storeVars, gmailVars, lastHistoryId, isPolling, timerVars,
                   currentPushConfig, task, watch, del, add, stop, apiCalls,
                   renewal, extract, deletes, pushes, everDeleted, lastSync>>

\* emailService.ts with deleteEmailProfessional called for stored replies,
\* with and without their Gmail id
NextTrash ==
    \/ \E m \in MsgIds : Arrive(m)
    \/ \E b \in BOOLEAN : SetToken(b)
    \/ sendEmailProfessional
    \/ AllIdle /\ handleFetchEmails
    \/ StepFull("full")
    \/ \E m \in MsgIds, withId \in BOOLEAN :
          \E r \in {x \in emails : x.messageId = MessageIdHdr(m)} :
             /\ AllIdle
             /\ deleteEmailProfessional(r.key, IF withId THEN m ELSE "")
    \/ TrashCall

SpecTrash == Init /\ [][NextTrash]_vars

\* ------------------------------------------------------- task extraction
\* extraction for every email of the loop, stored or not
extractsForAll(duplicate) == TRUE

\* emailService.ts fetchEmailReplies: extractTasksFromEmail is called in the
\* try block after `await addEmail`, which throws DUPLICATE_EMAIL
extractsFor(duplicate) == ~duplicate

\* addEmail's test and write inside the loop of emailService.ts, followed by
\* the task extraction when addEmail resolved
AddEmailThenExtract(s) ==
    LET t == task[s]
        email == FetchedEmail(Head(t.queue))
        duplicate == isDuplicate(t.snap, email)
    IN
    /\ t.pc = "A_set"
    /\ IF duplicate
       THEN UNCHANGED <<emails, nextKey>>
       ELSE /\ emails' = emails \cup
                    {[ key |-> nextKey, messageId |-> email.messageId,
                       senderEmail |-> email.senderEmail,
                       subject |-> email.subject,
                       receivedAt |-> email.receivedAt ]}
            /\ nextKey' = nextKey + 1
    /\ LET u == IF duplicate THEN [t EXCEPT !.snap = {}]
                ELSE [t EXCEPT !.snap = {}, !.count = t.count + 1,
                               !.wrote = TRUE]
       IN  IF extractsFor(duplicate)
           THEN /\ task' = [task EXCEPT ![s] = [u EXCEPT !.pc = "X_task"]]
                /\ UNCHANGED lastHistoryId
           ELSE advance(s, [u EXCEPT !.queue = Tail(t.queue)])
    /\ UNCHANGED <<deletedEmails, sentMessages, gmailVars, isPolling, timerVars,
                   currentPushConfig, watch, callVars, ghostVars>>

\* extractTasksFromEmail and the addTask calls: the model answers with no
\* task or with one; a failed request, malformed JSON or a failed addTask
\* ends in the inner catch block; the loop goes on in every case
ExtractTasks(s) ==
    LET t == task[s]
        m == Head(t.queue)
    IN
    /\ t.pc = "X_task"
    /\ \/ /\ faults < MaxFaults
          /\ faults' = faults + 1
          /\ extract' = [extract EXCEPT !.tried = @ \cup {m},
                                        !.failed = @ \cup {m}]
       \/ /\ \E hasTasks \in BOOLEAN :
                extract' = [extract EXCEPT
                    !.tried = @ \cup {m},
                    !.tasks = IF hasTasks THEN @ \cup {m} ELSE @]
          /\ UNCHANGED faults
    /\ advance(s, [t EXCEPT !.queue = Tail(t.queue)])
    /\ UNCHANGED <<storeVars, gmailVars, isPolling, timerVars,
                   currentPushConfig, watch, del, add, stop, apiCalls,
                   renewal, trash, deletes, pushes, everDeleted, lastSync>>

\* emailService.ts: manual fetches with task extraction, and deletions
NextExtract ==
    \/ \E m \in MsgIds : Arrive(m)
    \/ sendEmailProfessional
    \/ AllIdle /\ handleFetchEmails
    \/ AllIdle /\ \E r \in emails : handleDeleteEmail(r.key)
    \/ DeleteTombstone
    \/ DeleteRemove
    \/ FullGetSent("full")
    \/ FullGetDeleted("full")
    \/ FullFetch("full")
    \/ AddEmailGet("full")
    \/ AddEmailThenExtract("full")
    \/ ExtractTasks("full")
    \/ Return("full")

SpecExtract == Init /\ [][NextExtract]_vars

\* ------------------------------------------------------------ properties
\* the stored replies that came from message m
repliesOf(store, m) == {r \in store : r.messageId = MessageIdHdr(m)}

\* some sync is about to finish addEmail for a message that is already stored
SecondAttempt(s) ==
    /\ task[s].pc = "A_set"
    /\ repliesOf(emails, Head(task[s].queue)) # {}

\* C1: when syncs run one after another, the store never holds two replies
\* of the same message, and an addEmail attempt for a message that is already
\* stored is rejected as a duplicate: the store and the sync's count of new
\* replies stay as they are
NoDuplicateReplies ==
    [][ /\ \A m \in MsgIds : Cardinality(repliesOf(emails', m)) <= 1
        /\ \A s \in Slots :
              SecondAttempt(s) =>
                 /\ emails' = emails
                 /\ task'[s].count = task[s].count ]_vars

\* an incremental sync re-observes, after a cursor reset, a message that a
\* full sync has stored
SecondAttemptSeen ==
    \E s \in {"incr", "push"} :
        /\ SecondAttempt(s)
        /\ task[s].ret = "none"
        /\ lastHistoryId < histOf[Head(task[s].queue)]

\* C2: once deleteEmail has removed the reply of a message, no later step of
\* a full sync stores a reply of that message again
DeletedStaysDeleted ==
    [][ \A m \in MsgIds :
          MessageIdHdr(m) \in everDeleted =>
             repliesOf(emails', m) \subseteq repliesOf(emails, m) ]_vars

\* C6: a full sync for which getSentMessageIds returned the empty list
\* returns zero new replies, has written nothing to the store and has not
\* issued the list-messages call
EmptySentGuard ==
    \A s \in Slots :
        (task[s].pc = "ret" /\ task[s].ret = "top" /\ task[s].sent = {}) =>
            /\ task[s].out = "ok"
            /\ task[s].count = 0
            /\ ~task[s].wrote
            /\ ~task[s].listed

\* C7: after a run of successful incremental syncs the cursor is the history
\* id that the profile call of the last of them returned
CursorIsLastProfile ==
    lastSync.ok => lastHistoryId = lastSync.cur

\* two incremental syncs in a row have completed, the second one after new
\* mail had moved the mailbox's history id
SecondIncrementalDone ==
    /\ lastSync.ok
    /\ lastSync.n >= 2
    /\ lastSync.cur >= 2
    /\ AllIdle

\* C8: once set, the cursor is never replaced by an older history id
CursorMonotone ==
    [][ lastHistoryId # Null => lastHistoryId' >= lastHistoryId ]_vars

\* the top-level sync attempts of the engine that are in progress
SyncsInProgress == {s \in {"init", "poll", "push", "full", "incr"} : InFlight(s)}

\* C4: at no time are two top-level sync attempts of one engine in progress
NoOverlappingSyncs == Cardinality(SyncsInProgress) <= 1

\* C5: with two instances syncing against the same store, no message is
\* ever stored twice
NoDoubleImport ==
    \A m \in MsgIds : Cardinality(repliesOf(emails, m)) <= 1

\* C9: a sync that got null from the history call and then completed its
\* full sync leaves a non-null cursor other than the one that had expired
ExpiredCursorReplaced ==
    \A s \in Slots :
        (task[s].pc = "ret" /\ task[s].out = "ok" /\ task[s].expired # Null)
            => /\ currentPushConfig.historyId # Null
               /\ currentPushConfig.historyId # task[s].expired

\* the last k polls all found no new email
EmptyPolls(k) ==
    /\ Len(smart.last) >= k
    /\ \A i \in (Len(smart.last) - k + 1)..Len(smart.last) :
           smart.last[i].outcome = "empty"

Qualifies(m) ==
    /\ m \in inbox
    /\ isOurThread(m, sentMessages)
    /\ deletedKey(FetchedEmail(m)) \notin getDeletedEmailIds

\* C3: every inbox message that is a reply to a sent message and is not
\* tombstoned is eventually stored, as long as syncs keep being triggered
NoReplyMissed ==
    \A m \in MsgIds : Qualifies(m) ~> (repliesOf(emails, m) # {})

\* the thread of message m has a member in the set sent
HasSentMember(m, sent) ==
    \E x \in sent : x = SentId /\ ThreadOf(m) = SentThread

\* the call of slot s passes message m to addEmail in this step
HandsOver(s, m) ==
    /\ task[s].pc # "A_get"
    /\ task'[s].pc = "A_get"
    /\ Head(task'[s].queue) = m

\* the call of slot s examines the thread of the head of its queue
ExaminesThread(s) ==
    /\ task[s].pc = "I_thread"
    /\ task'[s] # task[s]

\* C11 as stated: a candidate is handed to the store if and only if its
\* thread has a member in the sent set, and a message whose thread has none
\* causes no store write
HandedOverIffInThread ==
    [][ /\ \A s \in Slots : ExaminesThread(s) =>
              (HandsOver(s, Head(task[s].queue))
                  <=> HasSentMember(Head(task[s].queue), task[s].sent))
        /\ \A m \in MsgIds :
              repliesOf(emails', m) # repliesOf(emails, m)
                  => HasSentMember(m, sentMessages) ]_vars

\* C11 amended: a candidate whose thread was fetched is handed to the store
\* if and only if its thread has a member in the sent set and it has no
\* tombstone; every message handed to the store has such a thread; a message
\* whose thread has no member in the sent set causes no store write
HandedOverIffInThreadAndKept ==
    /\ [](\A s \in Slots : task[s].pc \in {"A_get", "A_set"}
              => HasSentMember(Head(task[s].queue), task[s].sent))
    /\ [][ /\ \A s \in Slots : (ExaminesThread(s) /\ faults' = faults) =>
                 (HandsOver(s, Head(task[s].queue))
                     <=> /\ HasSentMember(Head(task[s].queue), task[s].sent)
                         /\ deletedKey(FetchedEmail(Head(task[s].queue)))
                                \notin task[s].deleted)
           /\ \A s \in Slots :
                 (task[s].pc = "F_fetch" /\ task'[s].pc \in {"A_get", "ret"}
                   /\ task'[s].out # "error" /\ faults' = faults) =>
                     \A m \in inbox :
                        (HasSentMember(m, task[s].sent)
                           /\ deletedKey(FetchedEmail(m)) \notin task[s].deleted)
                        => m \in Range(task'[s].queue)
           /\ \A m \in MsgIds :
                 repliesOf(emails', m) # repliesOf(emails, m)
                     => HasSentMember(m, sentMessages) ]_vars

\* an incremental sync has passed over a message of another thread and has
\* stored the replies
ForeignMessagePassedOver ==
    /\ task["incr"].pc = "ret"
    /\ task["incr"].ret = "none"
    /\ task["incr"].count >= 1
    /\ \E m \in inbox : /\ ThreadOf(m) # SentThread
                        /\ task["incr"].cur >= histOf[m]
                        /\ repliesOf(emails, m) = {}

\* two full syncs in a row have returned, the second with the candidate list
\* of the first
SameCandidatesTwice ==
    /\ task["full"].pc = "ret"
    /\ task["full"].out = "ok"
    /\ task["other"].pc = "ret"
    /\ task["other"].out = "ok"
    /\ task["other"].cands = task["full"].cands

MatchesExisting(existing, email) ==
    IF email.messageId # "" /\ existing.messageId # ""
    THEN existing.messageId = email.messageId
    ELSE /\ existing.senderEmail = email.senderEmail
         /\ existing.subject = email.subject
         /\ existing.receivedAt = email.receivedAt

\* C13: addEmail throws DUPLICATE_EMAIL exactly when a stored record matches
\* the new one by message id, or by the triple when a message id is missing;
\* otherwise it stores the record and returns its key
AddEmailRejectsExactly ==
    add.pc = "done" =>
        IF \E existing \in add.before : MatchesExisting(existing, add.email)
        THEN add.result = "DUPLICATE_EMAIL" /\ emails = add.before
        ELSE /\ add.result = "stored"
             /\ \E r \in emails \ add.before :
                   r.key = nextKey - 1 /\ r.messageId = add.email.messageId

\* C14: once the cleanup function has been called, the monitoring session
\* starts no further sync attempt
NoSyncAfterCleanup ==
    [][ stop.called =>
          \A s \in Slots : task[s].pc = "idle" => task'[s].pc = "idle" ]_vars

\* every call that was pending has settled
Settled ==
    /\ AllIdle
    /\ stop.pc = "idle"

\* C15: when the cleanup function was called while enablePushNotifications
\* was in flight, then once every pending call has settled no watch is
\* registered, currentPushConfig.enabled is false and no renewal is pending
NoWatchAfterCleanup ==
    (stop.racing /\ Settled) =>
        /\ ~watch.registered
        /\ ~currentPushConfig.enabled
        /\ ~watch.renew

\* C16: a failed sync of the monitoring loop is caught inside the loop, and
\* after a failed smart poll the next timeout is armed
FailuresStayInLoop ==
    /\ ~smart.unhandled
    /\ (smart.last # <<>> /\ smart.last[Len(smart.last)].outcome = "error"
          /\ task["poll"].pc = "idle" /\ ~stop.called) => smart.on

\* C17: a fetchEmailRepliesIncremental call never ends with an error for its
\* caller: after an error it returns the result of a full sync
IncrementalNeverThrows ==
    \A s \in {"incr", "poll", "push"} :
        task[s].pc = "ret" => task[s].out = "ok"

\* the stored record deleteEmail is working on, if there is one
Doomed == {r \in emails : r.key = del.id}

\* C18: deleteEmail writes the tombstone with the record's sender, subject
\* and time before it removes the record, so a record that is gone always
\* has a tombstone under its key, also after a failed deleteEmail; for an id
\* without a record it writes no tombstone
TombstoneBeforeRemoval ==
    /\ [](\A m \in MsgIds :
             (MessageIdHdr(m) \in everDeleted /\ repliesOf(emails, m) = {})
                 => isEmailDeleted(FetchedEmail(m)))
    /\ [][ /\ (del.pc = "get" /\ Doomed = {}) => deletedEmails' = deletedEmails
           /\ (del.pc = "get" /\ del'.pc = "rm") =>
                 \A r \in Doomed :
                    LET k == sanitize(deletedKey(r)) IN
                    /\ k \in DOMAIN deletedEmails'
                    /\ deletedEmails'[k].senderEmail = r.senderEmail
                    /\ deletedEmails'[k].subject = r.subject
                    /\ deletedEmails'[k].receivedAt = r.receivedAt
           /\ \A r \in emails \ emails' :
                 /\ del.pc = "rm"
                 /\ sanitize(deletedKey(r)) \in DOMAIN deletedEmails ]_vars

\* deleteEmail has removed a record, and a later call found no record
DeletedThenMissing ==
    /\ del.pc = "rm"
    /\ Doomed = {}
    /\ \E m \in MsgIds :
          MessageIdHdr(m) \in everDeleted /\ repliesOf(emails, m) = {}

\* C19: sendEmailProfessional writes the sent record only after Gmail has
\* accepted the message: a failed Gmail send ends the call with the error
\* rethrown and no record written, and a call that returned true has left
\* its message id among the keys getSentMessageIds returns
SentRecordOnlyAfterSend ==
    /\ [](/\ (send.result = "threw" /\ ~send.accepted)
                 => SentId \notin getSentMessageIds
          /\ (send.pc = "idle" /\ send.result = "true")
                 => send.messageId \in getSentMessageIds)
    /\ [][ /\ sentMessages' # sentMessages =>
                 /\ send.pc = "store"
                 /\ send.accepted
                 /\ sentMessages' = sentMessages \cup {send.messageId}
           /\ (send.pc = "gmail" /\ send'.pc = "idle") =>
                 /\ send'.result = "threw"
                 /\ sentMessages' = sentMessages ]_vars

\* a send has failed at Gmail, and a later one returned true
SentAfterFailedSend ==
    /\ send.rejected
    /\ send.pc = "idle"
    /\ send.result = "true"
    /\ send.messageId \in getSentMessageIds

\* the request being served has been answered
Answered == hook.requests > 0 /\ hook.pc = "idle"

WatchNeverLapses ==
    (currentPushConfig.enabled /\ watch.pc = "idle") =>
        /\ renewal.expiry > renewal.now
        /\ renewal.timer = renewal.expiry - DAY

\* C22: a push notification makes its historyId the cursor and starts one
\* incremental sync, a history fetch since the cursor, and the sync it
\* started never becomes a full scan
PushRunsIncremental ==
    /\ [](task["push"].pc \in {"idle", "P_history", "ret"})
    /\ [][ (task["push"].pc = "idle" /\ task'["push"].pc # "idle") =>
              \E h \in 1..gmailHistoryId :
                 /\ task'["push"].pc = "P_history"
                 /\ task'["push"].cur = h
                 /\ currentPushConfig'.historyId = h ]_vars

\* smart polling is running: a timeout is armed or its poll is in flight
SmartPolling == smart.on \/ smart.pollInterval # 0

\* C23: startEmailMonitoring activates exactly one periodic sync: the 5
\* minute backup sync and no smart polling when a topic was given and the
\* watch was registered, smart polling and no backup sync when no topic was
\* given or the registration failed
OneSyncMechanism ==
    /\ [](/\ ~(smart.backup /\ SmartPolling)
          /\ smart.backup => currentPushConfig.enabled
          /\ SmartPolling => ~currentPushConfig.enabled)
    /\ [][ /\ (watch.pc = "resume" /\ watch'.pc = "idle") =>
                 IF watch.result # Null
                 THEN smart'.backup /\ ~smart'.on /\ smart'.pollInterval = 0
                 ELSE ~smart'.backup /\ smart'.on
           /\ (smart = NoTimer /\ smart' # NoTimer /\ watch.pc = "idle") =>
                 ~smart'.backup /\ smart'.on ]_vars

\* the backup sync of a session with a registered watch is running
BackupSyncRunning ==
    /\ smart.backup
    /\ currentPushConfig.enabled
    /\ task["poll"].pc # "idle"
    /\ ~SmartPolling

\* C24: once deleteEmailProfessional has returned normally the message is
\* in Gmail's trash, the local record is gone from the store and a
\* tombstone keeps a later fetch from importing it again
DeletedEverywhere ==
    (trash.pc = "idle" /\ trash.result = "ok") =>
        /\ trash.gmail # "" => trash.gmail \in trash.trashed
        /\ \A r \in emails : r.key # trash.id
        /\ \A m \in MsgIds :
              m = trash.gmail => isEmailDeleted(FetchedEmail(m))

ExtractsOnlyNewReplies ==
    [][ /\ (task["full"].pc # "X_task" /\ task'["full"].pc = "X_task") =>
              LET email == FetchedEmail(Head(task'["full"].queue)) IN
              /\ \E r \in emails' \ emails : r.messageId = email.messageId
              /\ \A r \in emails : r.messageId # email.messageId
              /\ deletedKey(email) \notin task["full"].deleted
        /\ extract'.tried # extract.tried =>
              /\ task["full"].pc = "X_task"
              /\ extract'.tried = extract.tried \cup {Head(task["full"].queue)}
        /\ extract'.failed # extract.failed =>
              /\ emails' = emails
              /\ \E r \in emails :
                    r.messageId = MessageIdHdr(Head(task["full"].queue))
              /\ LET rest == dropDeleted(Tail(task["full"].queue),
                                         task["full"].deleted)
                 IN  IF rest = <<>>
                     THEN /\ task'["full"].pc = "ret"
                          /\ task'["full"].out = "ok"
                     ELSE /\ task'["full"].pc = "A_get"
                          /\ task'["full"].queue = rest ]_vars

\* an extraction has failed, its reply is stored, and the same sync has
\* gone on to store a later reply
WentOnAfterFailedExtraction ==
    /\ extract.failed # {}
    /\ \A m \in extract.failed : \E r \in emails : r.messageId = MessageIdHdr(m)
    /\ \E m \in extract.tried \ extract.failed :
          \E r \in emails : r.messageId = MessageIdHdr(m)
    /\ task["full"].pc = "ret"
    /\ task["full"].count >= 2

\* C27: isPolling is set exactly while a timer-triggered sync is in flight
\* and cleared when that sync ends, with or without an error, so it is
\* always cleared again; while it is set no tick starts or queues a sync:
\* only the sync in flight moves
BusyFlagTracksPoll ==
    /\ [](isPolling <=> task["poll"].pc # "idle")
    /\ [][ isPolling =>
              \/ PollStep
              \/ UNCHANGED <<isPolling, task["poll"]>> ]_vars
    /\ [][ (isPolling /\ ~isPolling') => task'["poll"] = Idle ]_vars
    /\ (isPolling ~> ~isPolling)

\* a poll has completed, and a later tick has started the next one
PollAfterPoll ==
    /\ lastSync.n >= 1
    /\ isPolling
    /\ task["poll"].pc # "idle"

\* C28: a reply deleted while a sync is in progress is not re-created by
\* that sync: when the tombstone was written and the record removed after
\* the sync had read the tombstone set, the sync's addEmail call for that
\* message stores nothing
DeletedDuringSyncStaysDeleted ==
    [][ \A m \in MsgIds :
           ( /\ task["full"].pc = "A_set"
             /\ Head(task["full"].queue) = m
             /\ MessageIdHdr(m) \in everDeleted
             /\ deletedKey(FetchedEmail(m)) \in getDeletedEmailIds
             /\ deletedKey(FetchedEmail(m)) \notin task["full"].deleted )
           => repliesOf(emails', m) = repliesOf(emails, m) ]_vars

\* C29: the two tombstone lookups agree: for the triple of every message,
\* isEmailDeleted finds a tombstone exactly when the key the sync builds
\* for the triple is among the keys getDeletedEmailIds returns
LookupsAgree ==
    \A m \in MsgIds :
        isEmailDeleted(FetchedEmail(m))
            <=> deletedKey(FetchedEmail(m)) \in getDeletedEmailIds

\* C30: whenever the webhook has answered 200 with success: true, the
\* /emailSyncTrigger node holds the historyId of that notification
AckedMeansWritten ==
    (Answered /\ hook.responses = <<200>> /\ hook.success) =>
        /\ hook.trigger # <<>>
        /\ hook.trigger[1] = hook.historyId
        /\ hook.stored

====
